---- MODULE Spec2Model ----
(***************************************************************************)
(* LingPet: the conversation sequencer of the pet window                   *)
(* (composables/chat/useConversation.ts, components/PetAvatar.vue) and the *)
(* chat-bubble overlay window that shows its turns                         *)
(* (components/ChatBubble.vue, pages/ChatBubblePage.vue,                   *)
(* services/windowFactory.ts).                                             *)
(*                                                                         *)
(* Two webviews share one localStorage.  The pet window writes it; the     *)
(* overlay reads it when it mounts and afterwards through `storage`        *)
(* events, which a webview receives for changes made by another webview.   *)
(* Texts are tuples of characters, so that slice() and the typewriter      *)
(* loop are computed as the code computes them.                            *)
(***************************************************************************)
EXTENDS Integers, Sequences, FiniteSets, TLC

\* ------------------------------------------------------------------ bounds
\* Longest conversation the AI reply may hold.
MaxTurns == 2

\* ------------------------------------------------------------------- data
\* constants/emotions.ts (ASCII stand-ins for the sprite names).
DEFAULT_EMOTION == "normal"
EMOTIONS == {"normal", "happy", "sad"}

\* Stand-ins for the literal texts of the code.
\* ChatBubblePage: route.query.message || '你好！'
HELLO_TEXT == <<"h", "i", "!">>
\* PetAvatar.sendMessage: 'AI回复格式错误或为空'
ERROR_TEXT == <<"E">>
\* `操作失败: ${errorMessage}`, the text of the catch block
FAILURE_TEXT == <<"F">>

\* The turns an AI reply is made of: {message, emotion, japanese}; chatWithPet
\* keeps only items whose emotion is in EMOTIONS, the message is any string.
TurnPool ==
    { item \in
        { [message |-> <<"a">>,      emotion |-> "happy", japanese |-> <<"j">>],
          [message |-> <<"b", "c">>, emotion |-> "sad",   japanese |-> <<"j">>],
          [message |-> <<>>,         emotion |-> "happy", japanese |-> <<"j">>] } :
        item.emotion \in EMOTIONS }

TurnLists == UNION { [1..n -> TurnPool] : n \in 1..MaxTurns }

\* What the user may have typed in the input box (" " is white space).
Inputs == { <<>>, <<" ">>, <<"x">> }

\* ------------------------------------------------------------ localStorage
StorageKeys ==
    {"bubbleMessages", "currentMessageIndex", "bubbleMessage",
     "currentEmotion", "closeBubble"}

\* A stored item is <<value>>; a missing item (getItem gives null) is <<>>.
NoItem == <<>>
EmptyStorage == [k \in StorageKeys |-> NoItem]

setItem(store, key, value) == [store EXCEPT ![key] = <<value>>]
removeItem(store, key) == [store EXCEPT ![key] = NoItem]

\* JSON.stringify(messages) / JSON.parse(messagesJson)
JSONstringify(messages) == [json |-> messages]
JSONparse(text) == text.json

\* Number.prototype.toString
toString(n) == ToString(n)

\* Date.now().toString().  Two conversations end at least one AI request
\* apart, so the stamp differs from the one stored before; a storage event
\* shows nothing else of it, and the stamps alternate between two values.
DateNow(store) ==
    IF store["closeBubble"] = NoItem THEN 0
    ELSE 1 - store["closeBubble"][1]

\* String.prototype.slice(0, i)
slice(text, i) == SubSeq(text, 1, i)

\* String.prototype.trim on the texts of Inputs
RECURSIVE trimStart(_)
trimStart(text) ==
    IF text # <<>> /\ Head(text) = " " THEN trimStart(Tail(text)) ELSE text
RECURSIVE trimEnd(_)
trimEnd(text) ==
    IF text # <<>> /\ text[Len(text)] = " "
    THEN trimEnd(SubSeq(text, 1, Len(text) - 1)) ELSE text
trim(text) == trimEnd(trimStart(text))

VARIABLES
    \* --- pet window: useConversation
    isInConversation, conversationMessages, conversationIndex,
    \* --- pet window: PetAvatar
    currentEmotion, isShaking, isSending,
    thinkingTimer,   \* the interval of setInterval(..., 500) is running
    thinkingIndex,   \* index into thinkingMessages
    inFlight,        \* calls of sendMessage between their try and their finally
    sendPc,          \* where sendMessage is: "idle", "chatWithPet", "createWindow"
    returned,        \* what the last call of playNext returned ("none" before any)
    presented,       \* indices published since the last startConversation
    \* --- shared
    localStorage,
    \* --- overlay window (label chat-bubble)
    bubbleWindow,    \* "none", "creating", "loading", "open"
    bubbleConfig,    \* the ChatBubbleConfig it was requested with
    closedBy,        \* how the last overlay went away
    storageEvents,   \* storage events queued for the overlay
    displayedMessage, isTyping, typing, hasMultipleMessages, totalMessages,
    newestText,      \* the last text typeMessage was started with
    bubbleEmotion, autoHideTimer

convVars == <<isInConversation, conversationMessages, conversationIndex>>
petVars == <<currentEmotion, isShaking, isSending, sendPc, returned, presented>>
thinkVars == <<thinkingTimer, thinkingIndex, inFlight>>
windowVars == <<bubbleWindow, bubbleConfig, closedBy>>
bubbleVars == <<storageEvents, displayedMessage, isTyping, typing, newestText,
                hasMultipleMessages, totalMessages, bubbleEmotion, autoHideTimer>>

VARIABLES
    \* --- WindowFactory and the windows of the shell
    instances,       \* WindowFactory.instances: label -> window (0: no entry)
    live,            \* the windows that are open
    labelOf,         \* the label each WebviewWindow was constructed with
    created,         \* label -> the window the shell last opened under it
    windowEvents,    \* tauri://destroyed and tauri://error not yet handled
    call,            \* the last call that completed, and what it returned
    \* --- useChat
    isVisible,
    chatWindows      \* windows showChatBubble listens to

factoryVars == <<instances, live, labelOf, created, windowEvents, call>>
chatVars == <<isVisible, chatWindows>>

VARIABLES
    \* --- useAIService
    aiConfig,        \* configStore.ai: api_key, base_url, model
    aiCall           \* the last call of the service, its reply and its result

aiVars == <<aiConfig, aiCall>>

VARIABLES
    \* --- position persistence
    moves,           \* move and resize events so far; an event's number is
                     \* the position it reports
    mainTimers,      \* timers of debouncedSavePosition not yet fired
    saveTimer,       \* useWindowPosition: handle of the last one (0: null)
    mainMoved,       \* the last tauri://move of the main window
    mainQuiet,       \* time since that event, in ticks
    mainSaved,       \* positions handed to save_main_window_position
    settingsTimers,  \* timers of debouncedSave not yet fired
    saveTimeout,     \* setupSettingsWindowPersistence: the last handle
    settingsBounds,  \* where the settings window is
    settingsQuiet,   \* time since its last move or resize, in ticks
    settingsSaved    \* bounds written to configStore.config.window

debounceVars == <<moves, mainTimers, saveTimer, mainMoved, mainQuiet, mainSaved,
                  settingsTimers, saveTimeout, settingsBounds, settingsQuiet,
                  settingsSaved>>

VARIABLES
    \* --- config store of the settings window and of the main window
    settingsConfig,  \* config of the settings window's store; a config is
                     \* named by the number of the change that made it
    configEvents,    \* config-changed events on their way to the main window
    mainConfig,      \* config of the main window's store
    saved,           \* configs passed to save_config
    \* --- throttle(saveConfig, 1000, { leading, trailing })
    lastArgs,        \* a call waits for the trailing edge
    timerId,         \* ticks until the throttle's timer expires (-1: none)
    sinceCall,       \* ticks since the last call (-1: never called)
    sinceInvoke      \* ticks since the last save

relayVars == <<settingsConfig, configEvents, mainConfig, saved>>
throttleVars == <<lastArgs, timerId, sinceCall, sinceInvoke>>

VARIABLES
    \* --- useChat.showMessageSequence(messages, options)
    seqMessages,     \* the messages it was called with
    seqOptions,      \* the options it was called with
    seqI,            \* the loop variable i
    seqPc,           \* "idle", "show", "wait", "done"
    requested,       \* the configs handed to createNotificationWindow
    opened,          \* the bubbles the shell opened, with their window
    waits            \* the intervals waited for

sequenceVars == <<seqMessages, seqOptions, seqI, seqPc, requested, opened, waits>>

VARIABLES
    \* --- useAppearanceSettings
    petSizeSlider, petSizePreview,
    petOpacitySlider, petOpacityPreview,
    showBorder, showBorderPreview,
    hasChanges,
    appearanceOp     \* the last function called, and whether it changed a ref

appearanceVars == <<petSizeSlider, petSizePreview, petOpacitySlider,
                    petOpacityPreview, showBorder, showBorderPreview,
                    hasChanges, appearanceOp>>

VARIABLES
    \* --- main window geometry: MainPage with useMainWindowResize
    mainMounted,     \* onMounted of MainPage has run
    scaleFactor,     \* appWindow.scaleFactor()
    windowPosition,  \* innerPosition(), physical pixels
    windowSide,      \* innerSize(), physical pixels (the window is square)
    mainWindowCentre,\* configStore.window.main_window_x / main_window_y, in
                     \* quarters of a logical pixel
    moveThrottle,    \* throttle of the tauri://move listener:
                     \* "idle", "waiting", "pending"
    lastResize,      \* pet size of the last resizeMainWindow (0: none)
    resizes          \* calls of resizeMainWindow after the one of onMounted

resizeVars == <<mainMounted, scaleFactor, windowPosition, windowSide,
                mainWindowCentre, moveThrottle, lastResize, resizes>>

\* What the pet window and its overlay leave alone.
otherVars == <<factoryVars, chatVars, aiVars, debounceVars, relayVars, throttleVars,
    sequenceVars,
    appearanceVars,
    resizeVars>>
seqVars == <<convVars, petVars, thinkVars, localStorage, windowVars, bubbleVars>>
\* What the window factory and useChat leave alone.
outsideFactory == <<seqVars, aiVars, debounceVars, relayVars, throttleVars,
    sequenceVars,
    appearanceVars,
    resizeVars>>
\* What the AI service leaves alone.
outsideAI == <<seqVars, factoryVars, chatVars, debounceVars, relayVars, throttleVars,
    sequenceVars,
    appearanceVars,
    resizeVars>>
\* What position persistence leaves alone.
outsideDebounce == <<seqVars, factoryVars, chatVars, aiVars, relayVars, throttleVars,
    sequenceVars,
    appearanceVars,
    resizeVars>>
\* What showMessageSequence leaves alone besides the factory and useChat.
outsideSequence == <<seqVars, aiVars, debounceVars, relayVars, throttleVars,
    appearanceVars,
    resizeVars>>
\* What useAppearanceSettings leaves alone.
outsideAppearance == <<seqVars, factoryVars, chatVars, aiVars, debounceVars,
    relayVars, throttleVars, sequenceVars,
    resizeVars>>
\* What the geometry of the main window leaves alone.
outsideResize == <<seqVars, factoryVars, chatVars, aiVars, debounceVars,
    relayVars, throttleVars, sequenceVars, appearanceVars>>
\* What the config stores leave alone.
outsideRelay == <<seqVars, factoryVars, chatVars, aiVars, debounceVars,
    sequenceVars,
    appearanceVars,
    resizeVars>>
vars == <<seqVars, otherVars>>

NoConfig == [message |-> <<>>, autoHide |-> TRUE, origin |-> "none"]

\* WebviewWindow objects constructed in one run.
MaxWindows == 3
\* The labels the application opens windows under (createSettingsWindow,
\* createNotificationWindow).
Labels == {"settings", "chat-bubble"}
\* The cases of the switch in createWindow.
WindowTypes == {"settings", "chat-bubble", "dialog"}
\* The types a caller can hand over; "tooltip" stands for any other value.
ConfigTypes == WindowTypes \cup {"tooltip"}
Configs == [type : ConfigTypes, label : Labels]
NoCall == [op |-> "none", label |-> "", window |-> 0, threw |-> FALSE]

\* Items of one reply array.
MaxItems == 2
\* '请正确配置AI服务'
CONFIGURE_MESSAGE == "configure the AI service"
\* A setting is the empty string or some text.
AIConfigs == [api_key : {"", "key"}, base_url : {"", "url"}, model : {"", "model"}]
NoReply == [status |-> "none", content |-> [kind |-> "empty", items |-> <<>>]]
NoAICall ==
    [op |-> "none", reply |-> NoReply, success |-> FALSE, data |-> <<>>,
     error |-> "", requestSent |-> FALSE, threw |-> FALSE]

InitAI ==
    /\ aiConfig = [api_key |-> "", base_url |-> "", model |-> ""]
    /\ aiCall = NoAICall

\* Move and resize events of one run.
MaxMoves == 3
\* The step of the clock, in ms.
TICK_MS == 200
\* debouncedSavePosition(callback, delay = 1000)
SAVE_DELAY == 1000
\* setTimeout(..., 200) of debouncedSave
SETTINGS_DELAY == 200

InitDebounce ==
    /\ moves = 0
    /\ mainTimers = {}
    /\ saveTimer = 0
    /\ mainMoved = 0
    /\ mainQuiet = 0
    /\ mainSaved = <<>>
    /\ settingsTimers = {}
    /\ saveTimeout = 0
    /\ settingsBounds = 0
    /\ settingsQuiet = 0
    /\ settingsSaved = <<>>

\* Changes made in the settings window in one run.
MaxChanges == 4
\* throttle(..., 1000, ...)
THROTTLE_WAIT == 1000
\* The throttle's wait in ticks of a quarter of a wait.
WaitTicks == THROTTLE_WAIT \div (THROTTLE_WAIT \div 4)

\* Both stores hold the config that load_config returned.
InitRelay ==
    /\ settingsConfig = 0
    /\ configEvents = <<>>
    /\ mainConfig = 0
    /\ saved = <<>>
    /\ lastArgs = FALSE
    /\ timerId = -1
    /\ sinceCall = -1
    /\ sinceInvoke = WaitTicks

\* The texts showMessageSequence is called with.
MessagePool == {"m1", "m2"}
MessageLists == UNION { [1..n -> MessagePool] : n \in 0..MaxWindows }
\* An optional field is <<value>>, or <<>> when it is undefined.
Undefined == <<>>
\* const interval = options?.interval ?? 1000
DEFAULT_INTERVAL == 1000
SHORT_INTERVAL == 0
SequenceOptions ==
    [interval : {Undefined, <<SHORT_INTERVAL>>},
     autoHide : {Undefined, <<TRUE>>, <<FALSE>>}]
DefaultOptions == [interval |-> Undefined, autoHide |-> Undefined]

InitSequence ==
    /\ seqMessages = <<>>
    /\ seqOptions = DefaultOptions
    /\ seqI = 0
    /\ seqPc = "idle"
    /\ requested = <<>>
    /\ opened = <<>>
    /\ waits = <<>>

\* constants/settings.ts; an opacity is written in percent (1.0 is 100).
SETTINGS_CONSTRAINTS ==
    [minSize |-> 100, maxSize |-> 300, minOpacity |-> 10, maxOpacity |-> 100]
DEFAULT_SETTINGS == [size |-> 150, opacity |-> 100, showBorder |-> TRUE]
\* The values the sliders and the switch are set to in the model.
PetSizes == {SETTINGS_CONSTRAINTS.minSize, DEFAULT_SETTINGS.size,
             SETTINGS_CONSTRAINTS.maxSize}
PetOpacities == {SETTINGS_CONSTRAINTS.minOpacity, 50, SETTINGS_CONSTRAINTS.maxOpacity}
\* initializeSettings(initialSettings?): every field may be left out.
InitialSettings ==
    [size : {Undefined} \cup { <<v>> : v \in PetSizes },
     opacity : {Undefined} \cup { <<v>> : v \in PetOpacities },
     showBorder : {Undefined} \cup { <<v>> : v \in BOOLEAN }]

InitAppearance ==
    /\ petSizeSlider = DEFAULT_SETTINGS.size
    /\ petSizePreview = DEFAULT_SETTINGS.size
    /\ petOpacitySlider = DEFAULT_SETTINGS.opacity
    /\ petOpacityPreview = DEFAULT_SETTINGS.opacity
    /\ showBorder = DEFAULT_SETTINGS.showBorder
    /\ showBorderPreview = DEFAULT_SETTINGS.showBorder
    /\ hasChanges = FALSE
    /\ appearanceOp = [name |-> "none", changed |-> FALSE]

\* Where the main window is put: top-left corners in physical pixels.
Places == { [x |-> 100, y |-> 100], [x |-> 141, y |-> 100], [x |-> 100, y |-> 163] }
\* appearance.pet_size values the window is resized for.
ResizeSizes == {SETTINGS_CONSTRAINTS.minSize, 101, DEFAULT_SETTINGS.size}
\* Scale factors of the screen.
ScaleFactors == {1, 2}
\* new LogicalSize(petSize + 80, petSize + 80)
WINDOW_MARGIN == 80
\* Changes of appearance.pet_size in one run.
MaxResizes == 2

InitResize ==
    /\ mainMounted = FALSE
    /\ scaleFactor = 1
    /\ windowPosition = [x |-> 0, y |-> 0]
    /\ windowSide = 0
    /\ mainWindowCentre = [x |-> 0, y |-> 0]
    /\ moveThrottle = "idle"
    /\ lastResize = 0
    /\ resizes = 0

InitFactory ==
    /\ instances = [label \in Labels |-> 0]
    /\ live = {}
    /\ labelOf = <<>>
    /\ created = [label \in Labels |-> 0]
    /\ windowEvents = {}
    /\ call = NoCall
    /\ isVisible = FALSE
    /\ chatWindows = {}

Init ==
    /\ isInConversation = FALSE
    /\ conversationMessages = <<>>
    /\ conversationIndex = 0
    /\ currentEmotion = DEFAULT_EMOTION
    /\ isShaking = FALSE
    /\ isSending = FALSE
    /\ thinkingTimer = FALSE
    /\ thinkingIndex = 0
    /\ inFlight = 0
    /\ sendPc = "idle"
    /\ returned = "none"
    /\ presented = <<>>
    /\ localStorage = EmptyStorage
    /\ bubbleWindow = "none"
    /\ bubbleConfig = NoConfig
    /\ closedBy = "none"
    /\ storageEvents = <<>>
    /\ displayedMessage = <<>>
    /\ newestText = <<>>
    /\ isTyping = FALSE
    /\ typing = <<>>
    /\ hasMultipleMessages = FALSE
    /\ totalMessages = 0
    /\ bubbleEmotion = DEFAULT_EMOTION
    /\ autoHideTimer = FALSE
    /\ InitFactory
    /\ InitAI
    /\ InitDebounce
    /\ InitRelay
    /\ InitSequence
    /\ InitAppearance
    /\ InitResize


\* ------------------------------------------------- storage events (browser)
\* The overlay's listener looks at three keys only; a change of any other key
\* is an event it ignores.
ListenedKeys == {"bubbleMessage", "currentEmotion", "closeBubble"}

\* setItem/removeItem raise a storage event in the other webview when the
\* stored value changes.
storageEvent(before, after, key) ==
    IF key \in ListenedKeys /\ before[key] # after[key]
    THEN << [key |-> key, newValue |-> after[key]] >>
    ELSE << >>

\* Events reach the overlay once its page has registered the listener.
dispatch(events) ==
    IF bubbleWindow = "open" THEN storageEvents \o events ELSE storageEvents

\* ------------------------------------------------------ overlay life cycle
ResetBubble ==
    /\ storageEvents' = <<>>
    /\ displayedMessage' = <<>>
    /\ newestText' = <<>>
    /\ isTyping' = FALSE
    /\ typing' = <<>>
    /\ hasMultipleMessages' = FALSE
    /\ totalMessages' = 0
    /\ bubbleEmotion' = DEFAULT_EMOTION
    /\ autoHideTimer' = FALSE

\* WindowFactory.closeWindow(label), as createWindow calls it first: the
\* close request for the registered window leaves in the calling task.
closeWindow ==
    /\ closedBy' = IF bubbleWindow \in {"loading", "open"} THEN "replaced" ELSE closedBy
    /\ ResetBubble

\* createNotificationWindow(message): WindowFactory.createWindow of a
\* chat-bubble with autoHide: true, up to its first await that waits for the
\* shell.  `origin` names the call site.
createNotificationWindow(message, origin) ==
    /\ closeWindow
    /\ bubbleWindow' = "creating"
    /\ bubbleConfig' = [message |-> message, autoHide |-> TRUE, origin |-> origin]
    /\ sendPc' = "createWindow"

\* ---------------------------------------------------------- useConversation
firstMessage_last(messages) ==
    IF Len(messages) > 0 THEN messages[Len(messages)].message ELSE <<>>
firstMessage(messages) == IF Len(messages) > 0 THEN messages[1].message ELSE <<>>
firstEmotion(messages) == IF Len(messages) > 0 THEN messages[1].emotion ELSE ""

startStorage_noIndex(store, messages) ==
    LET s1 == setItem(store, "bubbleMessages", JSONstringify(messages))
        s3 == setItem(s1, "bubbleMessage", firstMessage(messages))
        s4 == setItem(s3, "currentEmotion",
                      IF firstEmotion(messages) # "" THEN firstEmotion(messages)
                      ELSE DEFAULT_EMOTION)
    IN  s4
\* The four setItem calls of startConversation.
startStorage(store, messages) ==
    LET s1 == setItem(store, "bubbleMessages", JSONstringify(messages))
        s2 == setItem(s1, "currentMessageIndex", "0")
        s3 == setItem(s2, "bubbleMessage", firstMessage(messages))
        s4 == setItem(s3, "currentEmotion",
                      IF firstEmotion(messages) # "" THEN firstEmotion(messages)
                      ELSE DEFAULT_EMOTION)
    IN  s4

startConversation(messages) ==
    /\ isInConversation' = TRUE
    /\ conversationMessages' = messages
    /\ conversationIndex' = 0
    /\ IF firstEmotion(messages) # ""
       THEN isShaking' = TRUE /\ currentEmotion' = firstEmotion(messages)
       ELSE UNCHANGED <<isShaking, currentEmotion>>
    /\ localStorage' = startStorage(localStorage, messages)
    /\ presented' = <<0>>
    /\ createNotificationWindow(firstMessage(messages), "conversation")
    /\ UNCHANGED <<isSending, returned, thinkVars, otherVars>>

hasNext_early(index, messages) == index < Len(messages) - 2
\* The condition under which playNext moves to a next turn.
hasNext(index, messages) == index < Len(messages) - 1

nextStorage_noMessage(store, index, nextMessage) ==
    LET s1 == setItem(store, "currentMessageIndex", toString(index))
        s3 == setItem(s1, "currentEmotion", nextMessage.emotion)
    IN  s3
\* The three setItem calls of playNext.
nextStorage(store, index, nextMessage) ==
    LET s1 == setItem(store, "currentMessageIndex", toString(index))
        s2 == setItem(s1, "bubbleMessage", nextMessage.message)
        s3 == setItem(s2, "currentEmotion", nextMessage.emotion)
    IN  s3

endStorage_noSignal(store) ==
    LET s1 == removeItem(store, "bubbleMessages")
        s2 == removeItem(s1, "currentMessageIndex")
        s3 == removeItem(s2, "bubbleMessage")
    IN  s3
\* The storage writes of endConversation.
endStorage(store) ==
    LET s1 == removeItem(store, "bubbleMessages")
        s2 == removeItem(s1, "currentMessageIndex")
        s3 == removeItem(s2, "bubbleMessage")
        s4 == setItem(s3, "closeBubble", DateNow(store))
    IN  s4

endConversation ==
    /\ isInConversation' = FALSE
    /\ conversationMessages' = <<>>
    /\ conversationIndex' = 0
    /\ localStorage' = endStorage(localStorage)
    /\ storageEvents' =
           dispatch(storageEvent(localStorage, localStorage', "bubbleMessage")
                    \o storageEvent(localStorage, localStorage', "closeBubble"))

notInConversation_never == FALSE
\* playNext: if (!isInConversation.value) return false
notInConversation == ~isInConversation

playNext ==
    IF notInConversation
    THEN /\ returned' = "false"
         /\ UNCHANGED <<convVars, currentEmotion, isShaking, isSending, sendPc,
                        presented, localStorage, windowVars, bubbleVars, thinkVars, otherVars>>
    ELSE /\ isShaking' = TRUE
         /\ IF hasNext(conversationIndex, conversationMessages)
            THEN LET index == conversationIndex + 1
                     nextMessage == conversationMessages[index + 1]
                 IN  /\ conversationIndex' = index
                     /\ currentEmotion' = nextMessage.emotion
                     /\ localStorage' = nextStorage(localStorage, index, nextMessage)
                     /\ storageEvents' =
                            dispatch(storageEvent(localStorage, localStorage', "bubbleMessage")
                                     \o storageEvent(localStorage, localStorage', "currentEmotion"))
                     /\ presented' = Append(presented, index)
                     /\ returned' = "true"
                     /\ UNCHANGED <<isInConversation, conversationMessages>>
            ELSE /\ endConversation
                 /\ currentEmotion' = DEFAULT_EMOTION
                 /\ returned' = "false"
                 /\ UNCHANGED presented
         /\ UNCHANGED <<isSending, sendPc, windowVars, displayedMessage, newestText, isTyping,
                        typing, hasMultipleMessages, totalMessages, bubbleEmotion,
                        autoHideTimer, thinkVars, otherVars>>

\* ----------------------------------------------------------------- PetAvatar
handlePetClick ==
    IF isInConversation THEN playNext ELSE UNCHANGED vars

\* setTimeout(() => isShaking.value = false, 600)
shakeTimeout ==
    /\ isShaking
    /\ isShaking' = FALSE
    /\ UNCHANGED <<convVars, currentEmotion, isSending, sendPc, returned, presented,
                   localStorage, windowVars, bubbleVars, thinkVars, otherVars>>

\* thinkingMessages.length
THINKING_MESSAGES == 4

canSend_noLock(inputMessage) == trim(inputMessage) # <<>>
\* if (inputMessage.value.trim() && !isSending.value)
canSend(inputMessage) == trim(inputMessage) # <<>> /\ ~isSending

\* sendMessage up to `await chatWithPet(userMessage)`: the lock is taken and
\* the thinking interval started before the first await.
sendMessage(inputMessage) ==
    IF canSend(inputMessage)
    THEN /\ isSending' = TRUE
         /\ thinkingTimer' = TRUE
         /\ inFlight' = inFlight + 1
         /\ sendPc' = "chatWithPet"
         /\ UNCHANGED <<convVars, currentEmotion, isShaking, returned, presented,
                        thinkingIndex, localStorage, windowVars, bubbleVars,
                        otherVars>>
    ELSE UNCHANGED vars

\* The callback of setInterval(..., 500); it runs while the interval is set.
thinkingTick ==
    /\ thinkingTimer
    /\ thinkingIndex' = (thinkingIndex + 1) % THINKING_MESSAGES
    /\ UNCHANGED <<convVars, petVars, thinkingTimer, inFlight, localStorage,
                   windowVars, bubbleVars, otherVars>>

\* chatWithPet resolved with success and data: playConversation(data)
playConversation(messages) ==
    /\ sendPc = "chatWithPet"
    /\ startConversation(messages)

\* chatWithPet resolved without data: the error bubble
showReplyError ==
    /\ sendPc = "chatWithPet"
    /\ createNotificationWindow(ERROR_TEXT, "notification")
    /\ UNCHANGED <<convVars, currentEmotion, isShaking, isSending, returned,
                   presented, localStorage, thinkVars, otherVars>>

\* An await of the try block rejects: the catch block shows the failure text.
showSendFailure ==
    /\ sendPc = "chatWithPet"
    /\ createNotificationWindow(FAILURE_TEXT, "failure")
    /\ UNCHANGED <<convVars, currentEmotion, isShaking, isSending, returned,
                   presented, localStorage, thinkVars, otherVars>>

\* finally { clearInterval(thinkingTimer); thinkingIndex = 0; isSending = false }
sendFinally ==
    /\ thinkingTimer' = FALSE
    /\ thinkingIndex' = 0
    /\ isSending' = FALSE
    /\ inFlight' = inFlight - 1

\* createWindow resolves (the overlay window exists, its page is loading);
\* sendMessage runs its finally block.
createWindowDone ==
    /\ sendPc = "createWindow"
    /\ bubbleWindow = "creating"
    /\ bubbleWindow' = "loading"
    /\ sendPc' = "idle"
    /\ sendFinally
    /\ UNCHANGED <<convVars, currentEmotion, isShaking, returned, presented,
                   localStorage, bubbleConfig, closedBy, bubbleVars, otherVars>>


\* ------------------------------------------------- ChatBubblePage (overlay)
\* createChatBubble: `/#/chat-bubble?message=...&autoHide=${config.autoHide}`
chatBubbleUrl(config) ==
    [message |-> config.message,
     autoHide |-> IF config.autoHide THEN "true" ELSE "false"]

\* ChatBubblePage.onMounted: the props it hands to ChatBubble
propsMessage(config) ==
    IF chatBubbleUrl(config).message # <<>> THEN chatBubbleUrl(config).message
    ELSE HELLO_TEXT
propsAutoHide(config) == chatBubbleUrl(config).autoHide = "true"

\* ------------------------------------------------------ ChatBubble (overlay)
multipleMessages_three(total) == total > 2
\* initializeMessages: hasMultipleMessages from the stored bubbleMessages
multipleMessages(total) == total > 1

storedTotal(store) ==
    IF store["bubbleMessages"] # NoItem
    THEN Len(JSONparse(store["bubbleMessages"][1]))
    ELSE 0

\* updateEmotion: the stored currentEmotion, when there is one
updatedEmotion(store, emotion) ==
    IF store["currentEmotion"] # NoItem /\ store["currentEmotion"][1] # ""
    THEN store["currentEmotion"][1]
    ELSE emotion

\* The watcher of isTyping: arms the auto-hide timer when typing has stopped.
autoHideArmed(wasTyping, typingNow, config, multiple) ==
    wasTyping # typingNow /\ ~typingNow
    /\ propsAutoHide(config) /\ propsMessage(config) # <<>> /\ ~multiple

\* typeMessage(message) up to its first await
typeMessage(message) ==
    IF message = <<>>
    THEN UNCHANGED <<isTyping, displayedMessage, typing, newestText>>
    ELSE /\ isTyping' = TRUE
         /\ displayedMessage' = slice(message, 0)
         /\ newestText' = message
         /\ typing' = Append(typing, [message |-> message, i |-> 0])

\* The page of the overlay is mounted: ChatBubble.onMounted, then
\* ChatBubblePage.onMounted, which sets the message and so starts typing.
bubbleMounted ==
    /\ bubbleWindow = "loading"
    /\ bubbleWindow' = "open"
    /\ totalMessages' = storedTotal(localStorage)
    /\ hasMultipleMessages' = multipleMessages(storedTotal(localStorage))
    /\ bubbleEmotion' = updatedEmotion(localStorage, bubbleEmotion)
    /\ typeMessage(propsMessage(bubbleConfig))
    /\ UNCHANGED <<convVars, petVars, localStorage, bubbleConfig, closedBy,
                   storageEvents, autoHideTimer, thinkVars, otherVars>>

\* One timer of a typeMessage loop fires.  The loops wait the same typeSpeed,
\* so their timers fire in the order they were set.
typeTick ==
    /\ bubbleWindow = "open"
    /\ typing # <<>>
    /\ LET loop == Head(typing)
           i == loop.i + 1
       IN  IF i <= Len(loop.message)
           THEN /\ displayedMessage' = slice(loop.message, i)
                /\ typing' = Append(Tail(typing), [loop EXCEPT !.i = i])
                /\ UNCHANGED <<isTyping, autoHideTimer>>
           ELSE /\ typing' = Tail(typing)
                /\ isTyping' = FALSE
                /\ autoHideTimer' =
                       (autoHideTimer \/
                        autoHideArmed(isTyping, FALSE, bubbleConfig, hasMultipleMessages))
                /\ UNCHANGED displayedMessage
    /\ UNCHANGED <<convVars, petVars, localStorage, windowVars, storageEvents,
                   hasMultipleMessages, totalMessages, bubbleEmotion, newestText,
                   thinkVars, otherVars>>

\* The overlay window goes away.
bubbleCloses(how) ==
    /\ bubbleWindow' = "none"
    /\ closedBy' = how
    /\ ResetBubble
    /\ UNCHANGED bubbleConfig

\* The `storage` listener handles one event.
onStorage ==
    /\ bubbleWindow = "open"
    /\ storageEvents # <<>>
    /\ LET e == Head(storageEvents)
       IN  IF e.key = "closeBubble"
           THEN bubbleCloses("closeBubble")
           ELSE /\ storageEvents' = Tail(storageEvents)
                /\ IF e.key = "bubbleMessage" /\ e.newValue # NoItem
                   THEN typeMessage(e.newValue[1])
                   ELSE UNCHANGED <<isTyping, displayedMessage, typing, newestText>>
                /\ bubbleEmotion' =
                       IF e.key = "currentEmotion" /\ e.newValue # NoItem
                          /\ e.newValue[1] # ""
                       THEN updatedEmotion(localStorage, bubbleEmotion)
                       ELSE bubbleEmotion
                /\ UNCHANGED <<windowVars, hasMultipleMessages, totalMessages,
                               autoHideTimer>>
    /\ UNCHANGED <<convVars, petVars, localStorage, thinkVars, otherVars>>

\* setTimeout(() => webviewWindow.close(), autoHideDelay) fires.
autoHide ==
    /\ bubbleWindow = "open"
    /\ autoHideTimer
    /\ bubbleCloses("autoHide")
    /\ UNCHANGED <<convVars, petVars, localStorage, thinkVars, otherVars>>

\* -------------------------------------------------------------------- system
Next ==
    \/ \E inputMessage \in Inputs : sendMessage(inputMessage)
    \/ \E messages \in TurnLists : playConversation(messages)
    \/ showReplyError
    \/ showSendFailure
    \/ createWindowDone
    \/ handlePetClick
    \/ playNext
    \/ shakeTimeout
    \/ bubbleMounted
    \/ typeTick
    \/ onStorage
    \/ autoHide

Spec == Init /\ [][Next]_vars

\* sendMessage from the key press to its finally block, with the thinking
\* interval firing in between, pet clicks while it waits, and the overlay page
\* mounting after it.
NextSend ==
    \/ \E inputMessage \in Inputs : sendMessage(inputMessage)
    \/ \E messages \in TurnLists : playConversation(messages)
    \/ showReplyError
    \/ showSendFailure
    \/ createWindowDone
    \/ thinkingTick
    \/ handlePetClick
    \/ shakeTimeout
    \/ bubbleMounted

SpecSend == Init /\ [][NextSend]_vars


\* ==================================================================== claims
\* A pet click, or playNext called through the composable.
click == handlePetClick \/ playNext

\* The index a cursor on the last turn has.
lastIndex == Len(conversationMessages) - 1

\* C1: startConversation(turns) with a non-empty list, from any prior state,
\* leaves isInConversation = true, conversationMessages = turns and
\* conversationIndex = 0, sets the pet's emotion to turns[0].emotion, stores
\* turns[0].message as bubbleMessage and requests one chat-bubble window whose
\* message is turns[0].message.
C1_StartConversation ==
    [][\A messages \in TurnLists :
          playConversation(messages) =>
              /\ isInConversation'
              /\ conversationMessages' = messages
              /\ conversationIndex' = 0
              /\ currentEmotion' = messages[1].emotion
              /\ localStorage'["bubbleMessage"] = <<messages[1].message>>
              /\ bubbleWindow' = "creating"
              /\ bubbleConfig'.message = messages[1].message]_vars

\* A conversation was started in the middle of another one, whose overlay it
\* replaced: the last playNext had advanced, not ended.
C1_Witness ==
    /\ isInConversation /\ conversationIndex = 0 /\ presented = <<0>>
    /\ bubbleWindow = "creating" /\ bubbleConfig.origin = "conversation"
    /\ returned = "true" /\ closedBy = "replaced"

\* C2: playNext during a conversation whose cursor is not on the last turn
\* increments conversationIndex by one, sets the pet's emotion to the new
\* turn's, stores the new turn's index, message and emotion, returns true and
\* leaves the conversation active and its turns unchanged.
C2_PlayNextAdvances ==
    [][(click /\ isInConversation /\ conversationIndex < lastIndex) =>
          /\ conversationIndex' = conversationIndex + 1
          /\ currentEmotion' = conversationMessages[conversationIndex + 2].emotion
          /\ localStorage'["currentMessageIndex"] = <<ToString(conversationIndex + 1)>>
          /\ localStorage'["bubbleMessage"] =
                 <<conversationMessages[conversationIndex + 2].message>>
          /\ localStorage'["currentEmotion"] =
                 <<conversationMessages[conversationIndex + 2].emotion>>
          /\ returned' = "true"
          /\ isInConversation'
          /\ conversationMessages' = conversationMessages]_vars

C2_Witness ==
    /\ isInConversation /\ conversationIndex = 1 /\ returned = "true"
    /\ localStorage["currentMessageIndex"] = <<"1">>

\* C3: playNext during a conversation whose cursor is on the last turn ends
\* it: isInConversation becomes false, a new closeBubble stamp is stored (and
\* queued for an overlay that listens), the pet's emotion becomes
\* DEFAULT_EMOTION and the call returns false; the overlay closes its window
\* when it handles the closeBubble event.
C3_PlayNextEnds ==
    /\ [][(click /\ isInConversation /\ conversationIndex = lastIndex) =>
             /\ ~isInConversation'
             /\ localStorage'["closeBubble"] # NoItem
             /\ localStorage'["closeBubble"] # localStorage["closeBubble"]
             /\ bubbleWindow = "open" =>
                    /\ storageEvents' # <<>>
                    /\ storageEvents'[Len(storageEvents')] =
                           [key |-> "closeBubble",
                            newValue |-> localStorage'["closeBubble"]]
             /\ currentEmotion' = DEFAULT_EMOTION
             /\ returned' = "false"]_vars
    /\ [][(onStorage /\ Head(storageEvents).key = "closeBubble") =>
             bubbleWindow' = "none"]_vars

C3_Witness ==
    /\ ~isInConversation /\ returned = "false"
    /\ localStorage["closeBubble"] # NoItem
    /\ bubbleWindow = "none" /\ closedBy = "closeBubble"

\* The indices 0, 1, ..., last in order.
upTo(last) == [k \in 1..(last + 1) |-> k - 1]

\* C4: the turns of a conversation are presented in list order, each once:
\* while it is active the indices published so far are 0..conversationIndex;
\* a click before the last turn publishes the next index, a click on the last
\* turn ends the conversation with 0..n-1 published, and a click after the end
\* changes nothing of the sequencer, the pet or the storage.
C4_TurnsInOrder ==
    /\ [](isInConversation =>
             /\ conversationIndex <= lastIndex
             /\ presented = upTo(conversationIndex))
    /\ [][click =>
             /\ (isInConversation /\ conversationIndex < lastIndex) =>
                    /\ isInConversation'
                    /\ presented' = Append(presented, conversationIndex + 1)
             /\ (isInConversation /\ conversationIndex = lastIndex) =>
                    /\ ~isInConversation'
                    /\ presented' = upTo(lastIndex)
             /\ ~isInConversation =>
                    UNCHANGED <<convVars, presented, currentEmotion, isShaking,
                                localStorage, storageEvents>>]_vars

\* A conversation of two turns has been played to its end.
C4_Witness ==
    /\ ~isInConversation /\ presented = <<0, 1>> /\ returned = "false"

\* C5: while a conversation is active, the pet's emotion is that of the turn
\* under the cursor and the storage holds the cursor as currentMessageIndex,
\* the turn's message as bubbleMessage and its emotion as currentEmotion.
C5_SpriteAndStorageFollowCursor ==
    isInConversation =>
        /\ Len(conversationMessages) > 0
        /\ currentEmotion = conversationMessages[conversationIndex + 1].emotion
        /\ localStorage["currentMessageIndex"] = <<ToString(conversationIndex)>>
        /\ localStorage["bubbleMessage"] =
               <<conversationMessages[conversationIndex + 1].message>>
        /\ localStorage["currentEmotion"] =
               <<conversationMessages[conversationIndex + 1].emotion>>

C5_Witness ==
    /\ isInConversation /\ conversationIndex = 1 /\ bubbleWindow = "open"
    /\ currentEmotion = "sad" /\ localStorage["currentEmotion"] = <<"sad">>

\* The overlay is the one the active conversation asked for, it is mounted and
\* it has nothing left to do: no typing loop and no storage event pending.
overlayIdle ==
    /\ bubbleWindow = "open" /\ bubbleConfig.origin = "conversation"
    /\ ~isTyping /\ typing = <<>> /\ storageEvents = <<>>

\* C6: whatever the order of the clicks and the creation of the overlay, an
\* open and idle overlay shows the message of the turn under the cursor
\* (stated for conversations without an empty message).
C6_OverlayShowsCurrentTurn ==
    (/\ isInConversation
     /\ \A k \in 1..Len(conversationMessages) : conversationMessages[k].message # <<>>
     /\ overlayIdle)
        => displayedMessage = conversationMessages[conversationIndex + 1].message

\* C7: once the sequence has ended nothing of the conversation remains: not
\* active, no turns, cursor 0 and none of bubbleMessages, currentMessageIndex,
\* bubbleMessage and currentEmotion in the storage.
C7_AllDiscardedAtEnd ==
    (~isInConversation /\ returned = "false") =>
        /\ conversationMessages = <<>>
        /\ conversationIndex = 0
        /\ \A key \in {"bubbleMessages", "currentMessageIndex", "bubbleMessage",
                       "currentEmotion"} : localStorage[key] = NoItem

\* C8: an overlay closed by its auto-hide timer leaves no active conversation
\* behind.
C8_ClosedOverlayEndsConversation ==
    (bubbleWindow = "none" /\ closedBy = "autoHide") => ~isInConversation

\* C9: playNext while no conversation is active returns false and changes
\* nothing else: no shake, no emotion change, no storage write, no storage
\* event, cursor and turns unchanged; a pet click then changes nothing at all.
C9_PlayNextInactive ==
    /\ [][(playNext /\ ~isInConversation) =>
             /\ returned' = "false"
             /\ UNCHANGED <<convVars, currentEmotion, isShaking, isSending, sendPc,
                            presented, localStorage, windowVars, bubbleVars>>]_vars
    /\ [][(handlePetClick /\ ~isInConversation) => UNCHANGED vars]_vars

\* playNext has been called, and has returned false, before any conversation.
C9_Witness ==
    /\ returned = "false" /\ ~isInConversation /\ presented = <<>>
    /\ localStorage = EmptyStorage /\ ~isShaking

\* C10: the auto-hide timer of the overlay is neither pending nor has it
\* closed the overlay while the turn under the cursor is not the last one.
C10_NoAutoHideBeforeLastTurn ==
    (autoHideTimer \/ (bubbleWindow = "none" /\ closedBy = "autoHide"))
        => ~(isInConversation /\ conversationIndex < lastIndex)

\* The timer has closed the overlay of a one-turn conversation.
C10_Witness ==
    /\ bubbleWindow = "none" /\ closedBy = "autoHide"
    /\ isInConversation /\ Len(conversationMessages) = 1
    /\ bubbleConfig.origin = "conversation"

\* ------------------------------------------------------------------ usePet
\* getRandomEmotion: EMOTIONS[Math.floor(Math.random() * EMOTIONS.length)],
\* any member of the list.
getRandomEmotion == EMOTIONS

\* switchEmotion: draw until the draw differs from the current emotion or the
\* list has a single member; the emotions the loop can leave with.
switchEmotion(current) ==
    {newEmotion \in getRandomEmotion :
        ~(newEmotion = current /\ Cardinality(EMOTIONS) > 1)}

\* C11: a click on the pet switches the sprite to an emotion of the list other
\* than the current one: in no state can a click leave the pet with an
\* emotion that switchEmotion would not have chosen.
C11_ClickSwitchesEmotion ==
    ~ENABLED (handlePetClick /\ currentEmotion' \notin switchEmotion(currentEmotion))

\* ------------------------------------------------------------ window shell
\* The fields the factory's functions read and write, as one value.
Factory ==
    [instances |-> instances, live |-> live, labelOf |-> labelOf,
     created |-> created, windowEvents |-> windowEvents]

\* WebviewWindow.getByLabel(label): the open window with the label, or null.
getByLabel(s, label) ==
    IF \E h \in s.live : s.labelOf[h] = label
    THEN CHOOSE h \in s.live : s.labelOf[h] = label
    ELSE 0

\* WebviewWindow.close(): the shell destroys the window and reports it with
\* tauri://destroyed; the call rejects when the window is gone already.
windowClose(s, h) ==
    IF h \in s.live
    THEN [state |-> [s EXCEPT !.live = @ \ {h},
                              !.windowEvents =
                                  @ \cup {[window |-> h, event |-> "destroyed"]}],
          threw |-> FALSE]
    ELSE [state |-> s, threw |-> TRUE]

\* new WebviewWindow(label, options): the shell opens the window unless the
\* label is taken, which it reports with tauri://error.
newWebviewWindow(s, label) ==
    LET h == Len(s.labelOf) + 1
    IN  IF getByLabel(s, label) = 0
        THEN [s EXCEPT !.labelOf = Append(@, label),
                       !.live = @ \cup {h},
                       !.created[label] = h]
        ELSE [s EXCEPT !.labelOf = Append(@, label),
                       !.windowEvents =
                           @ \cup {[window |-> h, event |-> "error"]}]

\* ----------------------------------------------------------- WindowFactory
\* WindowInstance.close: a rejected close is logged, not rethrown.
WindowInstance_close(s, h) == windowClose(s, h).state

closeWindow_registryOnly(s, label) ==
    IF s.instances[label] # 0
    THEN [WindowInstance_close(s, s.instances[label]) EXCEPT !.instances[label] = 0]
    ELSE s
\* WindowFactory.closeWindow(label): the registered instance first, then
\* whatever window still carries the label; nothing it calls can throw past
\* its try blocks.
WindowFactory_closeWindow(s, label) ==
    LET a == IF s.instances[label] # 0
             THEN [WindowInstance_close(s, s.instances[label])
                       EXCEPT !.instances[label] = 0]
             ELSE s
        existingWindow == getByLabel(a, label)
    IN  IF existingWindow # 0 THEN windowClose(a, existingWindow).state ELSE a

\* createSettingsWindow / createDialogWindow: options, then the constructor.
createSettingsWindow(s, config, throws) ==
    IF throws THEN [state |-> s, window |-> 0, threw |-> TRUE]
    ELSE [state |-> newWebviewWindow(s, config.label),
          window |-> Len(s.labelOf) + 1, threw |-> FALSE]

createDialogWindow(s, config, throws) ==
    IF throws THEN [state |-> s, window |-> 0, threw |-> TRUE]
    ELSE [state |-> newWebviewWindow(s, config.label),
          window |-> Len(s.labelOf) + 1, threw |-> FALSE]

createChatBubble_noMainCheck(s, config, mainFound, throws) ==
    IF throws THEN [state |-> s, window |-> 0, threw |-> FALSE]
    ELSE [state |-> newWebviewWindow(s, config.label),
          window |-> Len(s.labelOf) + 1, threw |-> FALSE]
\* createChatBubble: needs the main window; its own catch returns null.
createChatBubble(s, config, mainFound, throws) ==
    IF ~mainFound \/ throws THEN [state |-> s, window |-> 0, threw |-> FALSE]
    ELSE [state |-> newWebviewWindow(s, config.label),
          window |-> Len(s.labelOf) + 1, threw |-> FALSE]

\* instances.set(config.label, instance)
register(s, config, window) == [s EXCEPT !.instances[config.label] = window]

createWindow_noClose(s, config, mainFound, throws) ==
    LET made == CASE config.type = "settings" -> createSettingsWindow(s, config, throws)
                  [] config.type = "chat-bubble" ->
                         createChatBubble(s, config, mainFound, throws)
                  [] config.type = "dialog" -> createDialogWindow(s, config, throws)
                  [] OTHER -> [state |-> s, window |-> 0, threw |-> TRUE]
    IN  IF made.threw
        THEN [state |-> made.state, window |-> 0, threw |-> FALSE]
        ELSE IF made.window # 0
        THEN [state |-> register(made.state, config, made.window),
              window |-> made.window, threw |-> FALSE]
        ELSE [state |-> made.state, window |-> 0, threw |-> FALSE]
\* WindowFactory.createWindow(config).  mainFound and throws are what the
\* shell answers: whether getByLabel('main') finds the pet window, and
\* whether a call made while creating the window throws.
WindowFactory_createWindow(s, config, mainFound, throws) ==
    LET c == WindowFactory_closeWindow(s, config.label)
        made == CASE config.type = "settings" -> createSettingsWindow(c, config, throws)
                  [] config.type = "chat-bubble" ->
                         createChatBubble(c, config, mainFound, throws)
                  [] config.type = "dialog" -> createDialogWindow(c, config, throws)
                  [] OTHER -> [state |-> c, window |-> 0, threw |-> TRUE]
    IN  IF made.threw
        THEN [state |-> made.state, window |-> 0, threw |-> FALSE]
        ELSE IF made.window # 0
        THEN [state |-> register(made.state, config, made.window),
              window |-> made.window, threw |-> FALSE]
        ELSE [state |-> made.state, window |-> 0, threw |-> FALSE]

\* WindowFactory.getWindow(label)
WindowFactory_getWindow(s, label) == s.instances[label]

\* The factory's fields take the values of s.
becomes(s) ==
    /\ instances' = s.instances
    /\ live' = s.live
    /\ labelOf' = s.labelOf
    /\ created' = s.created
    /\ windowEvents' = s.windowEvents

\* A caller awaits WindowFactory.createWindow(config).
callCreateWindow(config, mainFound, throws) ==
    /\ Len(labelOf) < MaxWindows
    /\ LET r == WindowFactory_createWindow(Factory, config, mainFound, throws)
       IN  /\ becomes(r.state)
           /\ call' = [op |-> "createWindow", label |-> config.label,
                       window |-> r.window, threw |-> r.threw]
    /\ UNCHANGED <<outsideFactory, chatVars>>

\* A caller awaits WindowFactory.closeWindow(label).
callCloseWindow(label) ==
    /\ becomes(WindowFactory_closeWindow(Factory, label))
    /\ call' = [op |-> "closeWindow", label |-> label, window |-> 0,
                threw |-> FALSE]
    /\ UNCHANGED <<outsideFactory, chatVars>>

\* setupWindowEvents: the once-listeners of tauri://destroyed and
\* tauri://error delete the entry of the label; showChatBubble's listener of
\* tauri://destroyed hides the bubble.
windowEvent ==
    \E e \in windowEvents :
        /\ windowEvents' = windowEvents \ {e}
        /\ instances' = [instances EXCEPT ![labelOf[e.window]] = 0]
        /\ isVisible' = IF e.event = "destroyed" /\ e.window \in chatWindows
                        THEN FALSE ELSE isVisible
        /\ UNCHANGED <<outsideFactory, live, labelOf, created, call, chatWindows>>

\* A window is closed from outside the factory: by the user, or by its own
\* page (the bubble's auto-hide).
windowClosed ==
    \E h \in live :
        /\ becomes(windowClose(Factory, h).state)
        /\ UNCHANGED <<outsideFactory, call, chatVars>>

\* ------------------------------------------------------------------ useChat
ChatBubbleConfig == [type |-> "chat-bubble", label |-> "chat-bubble"]

\* showChatBubble(message): createNotificationWindow never throws, so the
\* catch block is the path of r.threw only.
showChatBubbleCall(mainFound, throws) ==
    /\ Len(labelOf) < MaxWindows
    /\ LET r == WindowFactory_createWindow(Factory, ChatBubbleConfig, mainFound, throws)
       IN  /\ becomes(r.state)
           /\ isVisible' = ~r.threw
           /\ chatWindows' = IF ~r.threw /\ r.window # 0
                             THEN chatWindows \cup {r.window} ELSE chatWindows
           /\ call' = [op |-> "showChatBubble", label |-> "chat-bubble",
                       window |-> r.window, threw |-> FALSE]

showChatBubble(mainFound, throws) ==
    /\ showChatBubbleCall(mainFound, throws)
    /\ UNCHANGED outsideFactory

\* closeChatBubble()
closeChatBubble ==
    /\ becomes(WindowFactory_closeWindow(Factory, "chat-bubble"))
    /\ isVisible' = FALSE
    /\ call' = [op |-> "closeChatBubble", label |-> "chat-bubble", window |-> 0,
                threw |-> FALSE]
    /\ UNCHANGED <<outsideFactory, chatWindows>>

NextFactory ==
    \/ \E config \in Configs, mainFound \in BOOLEAN, throws \in BOOLEAN :
           callCreateWindow(config, mainFound, throws)
    \/ \E label \in Labels : callCloseWindow(label)
    \/ \E mainFound \in BOOLEAN, throws \in BOOLEAN : showChatBubble(mainFound, throws)
    \/ closeChatBubble
    \/ windowEvent
    \/ windowClosed

SpecFactory == Init /\ [][NextFactory]_vars

\* The windows open under a label.
liveWith(label) == {h \in live : labelOf[h] = label}

\* C12: between the calls of createWindow and closeWindow, at most one window
\* is open under each label, and a label's registry entry, when there is one,
\* is the window most recently opened under that label.
C12_OneWindowPerLabel ==
    \A label \in Labels :
        /\ Cardinality(liveWith(label)) <= 1
        /\ instances[label] # 0 => instances[label] = created[label]

\* createWindow has replaced a window: the first window of the label is
\* closed, a later one is open and registered.
C12_Witness ==
    \E label \in Labels :
        /\ call.op = "createWindow" /\ call.label = label
        /\ Len(labelOf) > 1 /\ labelOf[1] = label /\ 1 \notin live
        /\ instances[label] > 1 /\ instances[label] \in live

\* C13: when closeWindow(label) has completed, no window is open under the
\* label and getWindow(label) is null, and the call has not thrown; applied
\* to a label without window, or a second time, closeWindow changes nothing.
C13_CloseWindow ==
    /\ [][\A label \in Labels :
             callCloseWindow(label) =>
                 /\ liveWith(label)' = {}
                 /\ WindowFactory_getWindow(Factory, label)' = 0
                 /\ ~call'.threw]_vars
    /\ [](\A label \in Labels :
             LET once == WindowFactory_closeWindow(Factory, label)
             IN  /\ WindowFactory_closeWindow(once, label) = once
                 /\ (instances[label] = 0 /\ liveWith(label) = {}) => once = Factory)

\* closeWindow has closed an open window whose registry entry a stale event
\* had already deleted.
C13_Witness ==
    \E label \in Labels :
        /\ call.op = "closeWindow" /\ call.label = label
        /\ created[label] # 0 /\ liveWith(label) = {}
        /\ instances[label] = 0
        /\ [window |-> created[label], event |-> "destroyed"] \in windowEvents
        /\ \E h \in 1..Len(labelOf) :
               h # created[label] /\ labelOf[h] = label
               /\ \A e \in windowEvents : e.window # h

\* The cases in which no window can be created.
cannotCreate(config, mainFound, throws) ==
    \/ config.type \notin WindowTypes
    \/ config.type = "chat-bubble" /\ ~mainFound
    \/ throws

\* C18: a createWindow that cannot create its window (type not supported,
\* main window not found for a bubble, or a throw on the way) returns null,
\* throws nothing, and leaves the registry without an entry for the label.
C18_FailedCreateReturnsNull ==
    [][\A config \in Configs, mainFound \in BOOLEAN, throws \in BOOLEAN :
          (callCreateWindow(config, mainFound, throws)
           /\ cannotCreate(config, mainFound, throws)) =>
              /\ call'.window = 0
              /\ ~call'.threw
              /\ instances'[config.label] = 0]_vars

\* A createWindow has failed for a label that had a registered, open window.
C18_Witness ==
    \E label \in Labels :
        /\ call.op = "createWindow" /\ call.label = label /\ call.window = 0
        /\ instances[label] = 0
        /\ created[label] # 0 /\ created[label] \notin live
        /\ windowEvents = {[window |-> created[label], event |-> "destroyed"]}

\* C19: after a showChatBubble that returned null, isVisible is false.
C19_NoBubbleNotVisible ==
    (call.op = "showChatBubble" /\ call.window = 0) => ~isVisible

\* -------------------------------------------------- replies of the endpoint
\* Values of JavaScript as the parsed reply can hold them.
JsNull == [type |-> "null"]
JsNumber == [type |-> "number"]
JsUndefined == [type |-> "undefined"]
JsString(text) == [type |-> "string", text |-> text]
JsObject(message, emotion, japanese) ==
    [type |-> "object", message |-> message, emotion |-> emotion,
     japanese |-> japanese]

\* typeof value
typeof(value) == IF value.type = "null" THEN "object" ELSE value.type

\* Members of a reply array: two valid items, items that miss a condition
\* each, and values that are no plain object.
ItemPool ==
    {JsObject(JsString("a"), JsString("happy"), JsString("ja")),
     JsObject(JsString("b"), JsString("sad"), JsString("jb")),
     JsObject(JsString("c"), JsString("angry"), JsString("jc")),
     JsObject(JsNumber, JsString("happy"), JsString("jd")),
     JsObject(JsString("e"), JsString("happy"), JsUndefined),
     JsNumber,
     JsNull}

\* response.choices[0]?.message?.content: nothing, text that is no JSON, JSON
\* that is no array, or an array.
Contents ==
    {[kind |-> k, items |-> <<>>] : k \in {"empty", "text", "object"}}
    \cup {[kind |-> "array", items |-> items] :
              items \in UNION {[1..n -> ItemPool] : n \in 0..MaxItems}}

\* What fetch and response.json() come back with.
Replies ==
    {[status |-> st, content |-> [kind |-> "empty", items |-> <<>>]] :
         st \in {"networkError", "httpError", "noChoices"}}
    \cup {[status |-> "ok", content |-> c] : c \in Contents}

\* testAIConnection looks at the choices only, never at their content.
TestReplies == {reply \in Replies : reply.content.kind = "empty"}

\* ------------------------------------------------------------- useAIService
validateAIConfig_noModel(config) == config.api_key # "" /\ config.base_url # ""
\* validateAIConfig: Boolean(api_key && base_url && model)
validateAIConfig(config) ==
    config.api_key # "" /\ config.base_url # "" /\ config.model # ""

\* callAI: throws on a rejected fetch and on a response that is not ok.
callAI(reply) ==
    IF reply.status \in {"networkError", "httpError"}
    THEN [threw |-> TRUE, response |-> reply]
    ELSE [threw |-> FALSE, response |-> reply]

\* The callback of parsedResponse.filter: "true", "false", or "throws" when
\* it reads a property of null.
filterItem(item) ==
    IF typeof(item) # "object" THEN "false"
    ELSE IF item.type = "null" THEN "throws"
    ELSE IF /\ typeof(item.message) = "string"
            /\ typeof(item.emotion) = "string"
            /\ typeof(item.japanese) = "string"
            /\ item.emotion.text \in EMOTIONS
    THEN "true"
    ELSE "false"

keeps(item) == filterItem(item) = "true"

\* .map(item => ({ message, emotion, japanese }))
mapItems(items) ==
    [i \in 1..Len(items) |->
        [message |-> items[i].message.text, emotion |-> items[i].emotion.text,
         japanese |-> items[i].japanese.text]]

Failure(error, sent) ==
    [success |-> FALSE, data |-> <<>>, error |-> error, requestSent |-> sent,
     threw |-> FALSE]

\* The inner try of chatWithPet: JSON.parse, Array.isArray, filter and map.
parseAndFilter(content) ==
    IF content.kind = "text" THEN [threw |-> TRUE, result |-> Failure("", TRUE)]
    ELSE IF content.kind # "array"
    THEN [threw |-> FALSE, result |-> Failure("", TRUE)]
    ELSE IF \E i \in 1..Len(content.items) : filterItem(content.items[i]) = "throws"
    THEN [threw |-> TRUE, result |-> Failure("", TRUE)]
    ELSE LET validItems == mapItems(SelectSeq(content.items, keeps))
         IN  [threw |-> FALSE,
              result |-> IF Len(validItems) > 0
                         THEN [success |-> TRUE, data |-> validItems, error |-> "",
                               requestSent |-> TRUE, threw |-> FALSE]
                         ELSE Failure("", TRUE)]

\* chatWithPet(userMessage), given what the endpoint replies.
chatWithPet(config, reply) ==
    IF ~validateAIConfig(config) THEN Failure(CONFIGURE_MESSAGE, FALSE)
    ELSE IF callAI(reply).threw \/ reply.status = "noChoices"
    THEN Failure("chat failed", TRUE)
    ELSE IF reply.content.kind = "empty" THEN Failure("empty response", TRUE)
    ELSE IF parseAndFilter(reply.content).threw THEN Failure("", TRUE)
    ELSE parseAndFilter(reply.content).result

\* testAIConnection(), given what the endpoint replies.
testAIConnection(config, reply) ==
    IF ~validateAIConfig(config) THEN Failure(CONFIGURE_MESSAGE, FALSE)
    ELSE IF callAI(reply).threw THEN Failure("connection failed", TRUE)
    ELSE IF reply.status = "noChoices" THEN Failure("no valid response", TRUE)
    ELSE [success |-> TRUE, data |-> <<>>, error |-> "connected",
          requestSent |-> TRUE, threw |-> FALSE]

\* The record of a call: what was called, the reply, the result.
called(op, reply, result) ==
    [op |-> op, reply |-> reply, success |-> result.success, data |-> result.data,
     error |-> result.error, requestSent |-> result.requestSent,
     threw |-> result.threw]

\* A text field of the AI settings is edited (v-model on config.ai).
aiConfigEdited ==
    /\ \E config \in AIConfigs : aiConfig' = config
    /\ UNCHANGED <<aiCall, outsideAI>>

callChatWithPet(reply) ==
    /\ aiCall' = called("chatWithPet", reply, chatWithPet(aiConfig, reply))
    /\ UNCHANGED <<aiConfig, outsideAI>>

callTestAIConnection(reply) ==
    /\ aiCall' = called("testAIConnection", reply, testAIConnection(aiConfig, reply))
    /\ UNCHANGED <<aiConfig, outsideAI>>

NextAI ==
    \/ aiConfigEdited
    \/ \E reply \in Replies : callChatWithPet(reply)
    \/ \E reply \in TestReplies : callTestAIConnection(reply)

SpecAI == Init /\ [][NextAI]_vars

\* An item the claim counts as valid: an object with a string message, a
\* string japanese and an emotion of the list.
isValidItem(item) ==
    /\ item.type = "object"
    /\ item.message.type = "string" /\ item.japanese.type = "string"
    /\ item.emotion.type = "string" /\ item.emotion.text \in EMOTIONS

\* C16: with the service configured, chatWithPet never throws; for content
\* that parses as an array its data are the valid items in their order and
\* success says whether there is one; every other reply gives success false.
C16_ValidItemsInOrder ==
    [][LET reply == aiCall'.reply
       IN  (callChatWithPet(reply) /\ validateAIConfig(aiConfig)) =>
               /\ ~aiCall'.threw
               /\ IF reply.status = "ok" /\ reply.content.kind = "array"
                  THEN /\ aiCall'.data =
                             mapItems(SelectSeq(reply.content.items, isValidItem))
                       /\ aiCall'.success = (aiCall'.data # <<>>)
                  ELSE ~aiCall'.success]_vars

\* C17: with api_key, base_url or model empty, chatWithPet and
\* testAIConnection fail with the message that asks to configure the service
\* and send no request.
C17_NotConfiguredNoRequest ==
    [][((callChatWithPet(aiCall'.reply) \/ callTestAIConnection(aiCall'.reply))
        /\ (aiConfig.api_key = "" \/ aiConfig.base_url = "" \/ aiConfig.model = ""))
       => /\ ~aiCall'.success
          /\ aiCall'.error = CONFIGURE_MESSAGE
          /\ ~aiCall'.requestSent]_vars

\* chatWithPet was called with only the model missing, for a reply that
\* would have carried a valid item.
C17_Witness ==
    /\ aiCall.op = "chatWithPet"
    /\ aiConfig = [api_key |-> "key", base_url |-> "url", model |-> ""]
    /\ aiCall.error = CONFIGURE_MESSAGE /\ ~aiCall.requestSent
    /\ aiCall.reply.status = "ok" /\ aiCall.reply.content.kind = "array"
    /\ \E i \in 1..Len(aiCall.reply.content.items) :
           keeps(aiCall.reply.content.items[i])

\* ------------------------------------------------------------------- timers
\* setTimeout(callback, delay): a timer with a handle, what its callback
\* holds, and the ticks left until it fires.
setTimeout(timers, handle, value, delay) ==
    timers \cup {[handle |-> handle, value |-> value, left |-> delay \div TICK_MS]}

\* clearTimeout(handle): a handle that is null or has fired clears nothing.
clearTimeout(timers, handle) == {t \in timers : t.handle # handle}

\* A tick of the clock for the timers that wait.
elapse(timers) == {[t EXCEPT !.left = @ - 1] : t \in timers}

due(timers) == {t \in timers : t.left = 0}

\* ----------------------------------------------- useWindowPosition (main)
debouncedSavePosition_noClear(timers, handle, value, delay) ==
    setTimeout(timers, moves + 1, value, delay)
\* debouncedSavePosition(callback, delay): if (saveTimer) clearTimeout(saveTimer);
\* saveTimer = setTimeout(callback, delay).  The new handle is the number of
\* the event.
debouncedSavePosition(timers, handle, value, delay) ==
    setTimeout(clearTimeout(timers, handle), moves + 1, value, delay)

\* setupWindowMoveListener: tauri://move of the main window; the callback
\* holds the position the event reports.
mainWindowMoved ==
    /\ moves < MaxMoves
    /\ moves' = moves + 1
    /\ mainMoved' = moves + 1
    /\ mainQuiet' = 0
    /\ mainTimers' = debouncedSavePosition(mainTimers, saveTimer, moves + 1, SAVE_DELAY)
    /\ saveTimer' = moves + 1
    /\ UNCHANGED <<mainSaved, settingsTimers, saveTimeout, settingsBounds,
                   settingsQuiet, settingsSaved, outsideDebounce>>

\* The timer of debouncedSavePosition fires:
\* saveMainWindowPosition(logicalX, logicalY).
mainTimerFires ==
    \E t \in due(mainTimers) :
        /\ mainTimers' = mainTimers \ {t}
        /\ mainSaved' = Append(mainSaved, t.value)
        /\ UNCHANGED <<moves, saveTimer, mainMoved, mainQuiet, settingsTimers,
                       saveTimeout, settingsBounds, settingsQuiet, settingsSaved,
                       outsideDebounce>>

\* ------------------------------------ setupSettingsWindowPersistence
\* debouncedSave: clearTimeout(saveTimeout); saveTimeout = setTimeout(..., 200)
debouncedSave(timers, handle) ==
    setTimeout(clearTimeout(timers, handle), moves + 1, 0, SETTINGS_DELAY)

\* tauri://move or tauri://resize of the settings window.
settingsWindowMoved ==
    /\ moves < MaxMoves
    /\ moves' = moves + 1
    /\ settingsBounds' = moves + 1
    /\ settingsQuiet' = 0
    /\ settingsTimers' = debouncedSave(settingsTimers, saveTimeout)
    /\ saveTimeout' = moves + 1
    /\ UNCHANGED <<mainTimers, saveTimer, mainMoved, mainQuiet, mainSaved,
                   settingsSaved, outsideDebounce>>

\* The timer of debouncedSave fires: the callback reads the bounds of the
\* window and writes them to the configuration.
settingsTimerFires ==
    \E t \in due(settingsTimers) :
        /\ settingsTimers' = settingsTimers \ {t}
        /\ settingsSaved' = Append(settingsSaved, settingsBounds)
        /\ UNCHANGED <<moves, saveTimeout, settingsBounds, settingsQuiet, mainTimers,
                       saveTimer, mainMoved, mainQuiet, mainSaved, outsideDebounce>>

\* The longest time the model counts, in ticks.
Horizon == SAVE_DELAY \div TICK_MS

\* Time passes by one tick; a timer that is due fires first.
tick ==
    /\ due(mainTimers) = {} /\ due(settingsTimers) = {}
    /\ mainTimers # {} \/ settingsTimers # {}
    /\ mainTimers' = elapse(mainTimers)
    /\ settingsTimers' = elapse(settingsTimers)
    /\ mainQuiet' = IF mainQuiet < Horizon THEN mainQuiet + 1 ELSE mainQuiet
    /\ settingsQuiet' = IF settingsQuiet < Horizon THEN settingsQuiet + 1
                        ELSE settingsQuiet
    /\ UNCHANGED <<moves, saveTimer, mainMoved, mainSaved, saveTimeout,
                   settingsBounds, settingsSaved, outsideDebounce>>

NextDebounce ==
    \/ mainWindowMoved
    \/ mainTimerFires
    \/ settingsWindowMoved
    \/ settingsTimerFires
    \/ tick

SpecDebounce == Init /\ [][NextDebounce]_vars

\* The values of a log, each written once and in the order of the events.
increasing(log) == \A i, j \in 1..Len(log) : i < j => log[i] < log[j]

lastOf(log) == IF log = <<>> THEN 0 ELSE log[Len(log)]

emitConfigChanged_dropped(events, newConfig) == events
\* emitConfigChanged(newConfig): emit('config-changed', appConfig)
emitConfigChanged(events, newConfig) == Append(events, newConfig)

\* The settings window changes its config; the deep watcher set up by
\* initialize(true) runs and emits the new config.
settingsChanged ==
    /\ settingsConfig < MaxChanges
    /\ settingsConfig' = settingsConfig + 1
    /\ configEvents' = emitConfigChanged(configEvents, settingsConfig')
    /\ UNCHANGED <<mainConfig, saved, throttleVars, outsideRelay>>

\* lodash shouldInvoke(time)
shouldInvoke == sinceCall = -1 \/ sinceCall >= WaitTicks \/ sinceInvoke >= WaitTicks

\* lodash remainingWait(time)
remainingWait ==
    IF WaitTicks - sinceCall < WaitTicks - sinceInvoke
    THEN WaitTicks - sinceCall ELSE WaitTicks - sinceInvoke

\* saveConfig: invoke('save_config', { config: this.config })
saveConfig(config) == Append(saved, config)

\* throttledSaveConfig() with the store holding `config`: the throttled
\* function of lodash is called.
throttledSaveConfig(config) ==
    /\ sinceCall' = 0
    /\ IF shouldInvoke
       THEN \* leading edge, or the longest wait is over: invokeFunc
            /\ timerId' = WaitTicks
            /\ saved' = saveConfig(config)
            /\ lastArgs' = FALSE
            /\ sinceInvoke' = 0
       ELSE /\ timerId' = IF timerId = -1 THEN WaitTicks ELSE timerId
            /\ lastArgs' = TRUE
            /\ UNCHANGED <<saved, sinceInvoke>>

\* The listener set up by initialize(false) takes one config-changed event:
\* Object.assign(this.config, appConfig); this.throttledSaveConfig().
onConfigChanged ==
    /\ configEvents # <<>>
    /\ configEvents' = Tail(configEvents)
    /\ mainConfig' = Head(configEvents)
    /\ throttledSaveConfig(mainConfig')
    /\ UNCHANGED <<settingsConfig, outsideRelay>>

\* lodash timerExpired: the trailing edge, or the timer is set again.
timerExpired ==
    /\ timerId = 0
    /\ IF shouldInvoke
       THEN /\ timerId' = -1
            /\ IF lastArgs
               THEN /\ saved' = saveConfig(mainConfig)
                    /\ sinceInvoke' = 0
                    /\ lastArgs' = FALSE
               ELSE UNCHANGED <<saved, sinceInvoke, lastArgs>>
       ELSE /\ timerId' = remainingWait
            /\ UNCHANGED <<saved, sinceInvoke, lastArgs>>
    /\ UNCHANGED <<sinceCall, settingsConfig, configEvents, mainConfig, outsideRelay>>

\* A quarter of a wait passes; a timer that is due expires first.
relayTick ==
    /\ timerId # 0
    /\ timerId > 0 \/ sinceCall \in 0..(WaitTicks - 1) \/ sinceInvoke < WaitTicks
    /\ timerId' = IF timerId > 0 THEN timerId - 1 ELSE timerId
    /\ sinceCall' = IF sinceCall \in 0..(WaitTicks - 1) THEN sinceCall + 1 ELSE sinceCall
    /\ sinceInvoke' = IF sinceInvoke < WaitTicks THEN sinceInvoke + 1 ELSE sinceInvoke
    /\ UNCHANGED <<lastArgs, relayVars, outsideRelay>>

NextRelay ==
    \/ settingsChanged
    \/ onConfigChanged
    \/ timerExpired
    \/ relayTick

\* Events are delivered, timers expire and time passes.
SpecRelay ==
    /\ Init /\ [][NextRelay]_vars
    /\ WF_vars(onConfigChanged) /\ WF_vars(timerExpired) /\ WF_vars(relayTick)

\* C14: each change of the settings window's config goes out as one
\* config-changed event that carries it; when the main window has handled
\* the last event on the way its config is the settings window's; within a
\* burst of changes two saves are at least 1000 ms apart (a save sooner
\* after the last one belongs to a change that came a full wait after the
\* change before); a config that waits to be saved has the timer running,
\* otherwise the last config received is the last one saved; and the config
\* of the settings window is saved again and again.
C14_ConfigRelayedAndSaved ==
    /\ [][settingsChanged =>
             configEvents' = Append(configEvents, settingsConfig')]_vars
    /\ [][(onConfigChanged /\ configEvents' = <<>>) =>
             mainConfig' = settingsConfig']_vars
    /\ [][(saved' # saved /\ sinceInvoke < WaitTicks) =>
             (onConfigChanged /\ sinceCall >= WaitTicks)]_vars
    /\ [](/\ lastArgs => timerId >= 0
          /\ (~lastArgs /\ saved # <<>>) => saved[Len(saved)] = mainConfig)
    /\ []<>(saved # <<>> => saved[Len(saved)] = settingsConfig)
    /\ []<>(mainConfig = settingsConfig)

\* A burst of two changes was saved at its leading and at its trailing
\* edge, and a third change after it at once.
C14_Witness ==
    /\ saved = <<1, 2, 3>> /\ settingsConfig = 3 /\ mainConfig = 3
    /\ configEvents = <<>>


\* ------------------------------------------------------------ PetAvatar lock
\* A request has run to its finally block.
requestEnded == sendPc # "idle" /\ sendPc' = "idle"

\* C20: isSending is a lock around the AI request.  sendMessage changes
\* nothing when the input is empty or white space or when isSending is
\* already true, so at most one request is in flight; a request that has
\* started can always run on to its finally block; and when a request ends,
\* whether the reply was played, was refused as empty or malformed, or an
\* await threw, isSending is false again, the thinking interval is cleared
\* and thinkingIndex is back at 0.
C20_SendingLock ==
    /\ [](\A inputMessage \in Inputs :
             (trim(inputMessage) = <<>> \/ isSending)
                 => ~ENABLED (sendMessage(inputMessage) /\ vars' # vars))
    /\ [](inFlight = IF isSending THEN 1 ELSE 0)
    /\ [](isSending <=> sendPc # "idle")
    /\ [](thinkingTimer <=> isSending)
    /\ [](~isSending => thinkingIndex = 0 /\ ~ENABLED thinkingTick)
    /\ [](sendPc = "chatWithPet" => ENABLED showReplyError /\ ENABLED showSendFailure)
    /\ [](sendPc = "createWindow" => ENABLED createWindowDone)
    /\ [][requestEnded =>
             /\ ~isSending' /\ ~thinkingTimer' /\ thinkingIndex' = 0
             /\ inFlight' = 0
             /\ bubbleConfig.origin \in {"conversation", "notification", "failure"}]_vars

\* A request whose await threw has ended, and a new message can be sent.
C20_Witness ==
    /\ sendPc = "idle" /\ ~isSending /\ ~thinkingTimer /\ thinkingIndex = 0
    /\ bubbleWindow = "loading" /\ bubbleConfig.origin = "failure"
    /\ ENABLED (sendMessage(<<"x">>) /\ isSending')


\* ------------------------------------------- useChat.showMessageSequence
\* a ?? b
nullish(a, b) == IF a = Undefined THEN b ELSE a[1]

\* createNotificationWindow(message, config): the defaults, then ...config
notificationConfig(message, config) ==
    [type |-> "chat-bubble", label |-> "chat-bubble", message |-> message,
     autoHide |-> nullish(config.autoHide, TRUE)]

\* showChatBubble(message, options): autoHide: options?.autoHide ?? true
bubbleConfigOf(message, options) ==
    notificationConfig(message, [autoHide |-> <<nullish(options.autoHide, TRUE)>>])

isLast(i, messages) == i = Len(messages) - 1

sequenceAutoHide_always(options, i, messages) == nullish(options.autoHide, TRUE)
\* autoHide: options?.autoHide ?? isLast
sequenceAutoHide(options, i, messages) ==
    nullish(options.autoHide, isLast(i, messages))

\* const interval = options?.interval ?? 1000
sequenceInterval(options) == nullish(options.interval, DEFAULT_INTERVAL)

\* What the overlay page is opened with: the query of createChatBubble's url
\* as ChatBubblePage reads it.
bubbleProps(config) ==
    [message |-> config.message,
     autoHide |-> (IF config.autoHide THEN "true" ELSE "false") = "true"]

\* showMessageSequence(messages, options) up to the first showChatBubble.
callShowMessageSequence(messages, options) ==
    /\ seqPc = "idle"
    /\ seqMessages' = messages
    /\ seqOptions' = options
    /\ seqI' = 0
    /\ seqPc' = IF 0 < Len(messages) THEN "show" ELSE "done"
    /\ UNCHANGED <<requested, opened, waits, factoryVars, chatVars, outsideSequence>>

\* One pass of the loop up to its wait: await showChatBubble(message, ...).
showNextMessage(mainFound, throws) ==
    /\ seqPc = "show"
    /\ LET message == seqMessages[seqI + 1]
           config == bubbleConfigOf(message,
                         [autoHide |-> <<sequenceAutoHide(seqOptions, seqI, seqMessages)>>])
       IN  /\ showChatBubbleCall(mainFound, throws)
           /\ requested' = Append(requested, bubbleProps(config))
           /\ opened' = IF call'.window # 0
                        THEN Append(opened, [window |-> call'.window,
                                             props |-> bubbleProps(config)])
                        ELSE opened
    /\ seqPc' = IF isLast(seqI, seqMessages) THEN "done" ELSE "wait"
    /\ UNCHANGED <<seqMessages, seqOptions, seqI, waits, outsideSequence>>

\* await new Promise(resolve => setTimeout(resolve, interval)), then i++
intervalElapsed ==
    /\ seqPc = "wait"
    /\ waits' = Append(waits, sequenceInterval(seqOptions))
    /\ seqI' = seqI + 1
    /\ seqPc' = "show"
    /\ UNCHANGED <<seqMessages, seqOptions, requested, opened, factoryVars,
                   chatVars, outsideSequence>>

NextSequence ==
    \/ \E messages \in MessageLists, options \in SequenceOptions :
           callShowMessageSequence(messages, options)
    \/ \E mainFound \in BOOLEAN, throws \in BOOLEAN : showNextMessage(mainFound, throws)
    \/ intervalElapsed
    \/ windowEvent
    \/ windowClosed

SpecSequence == Init /\ [][NextSequence]_vars

\* The bubble showMessageSequence asks for at index i (from 0).
expected(i) ==
    [message |-> seqMessages[i + 1],
     autoHide |-> IF seqOptions.autoHide = Undefined
                  THEN i = Len(seqMessages) - 1
                  ELSE seqOptions.autoHide[1]]
\* The shell refused no bubble of the sequence.
allOpened == Len(opened) = Len(requested)
\* The passes of the loop that have shown their message.
passes ==
    CASE seqPc = "idle" -> 0
      [] seqPc = "show" -> seqI
      [] seqPc = "wait" -> seqI + 1
      [] seqPc = "done" -> Len(seqMessages)

\* C21: showMessageSequence asks for one bubble per message, in the order of
\* the messages, each exactly once; with default options only the last one
\* is created auto-hiding; it has waited the interval once between two
\* consecutive messages and not after the last; the bubbles opened are the
\* requested ones in order (all of them when the shell refuses none), each
\* in a window of its own, and at most one of them is open at a time.
C21_MessageSequence ==
    /\ Len(requested) = passes
    /\ \A i \in 0..(Len(requested) - 1) : requested[i + 1] = expected(i)
    /\ Len(waits) = (IF seqPc \in {"wait", "done"} /\ passes > 0
                     THEN passes - 1 ELSE passes)
    /\ \A k \in 1..Len(waits) :
           waits[k] = (IF seqOptions.interval = Undefined THEN DEFAULT_INTERVAL
                       ELSE seqOptions.interval[1])
    /\ allOpened => \A i \in 1..Len(opened) : opened[i].props = requested[i]
    /\ \A i, j \in 1..Len(opened) :
           i < j => /\ opened[i].window < opened[j].window
                    /\ opened[i].window \notin live
    /\ Cardinality({h \in live : labelOf[h] = "chat-bubble"}) <= 1

\* A sequence of three messages with default options has run to its end and
\* every bubble was opened.
C21_Witness ==
    /\ seqPc = "done" /\ Len(seqMessages) = 3 /\ seqOptions = DefaultOptions
    /\ Len(opened) = 3 /\ Len(waits) = 2
    /\ opened[3].props.autoHide /\ ~opened[1].props.autoHide
    /\ opened[3].window \in live


\* ---------------------------------------------------- useAppearanceSettings
\* The refs of the composable: the committed values, and all of them.
committed == <<petSizeSlider, petOpacitySlider, showBorder>>
previews == <<petSizePreview, petOpacityPreview, showBorderPreview>>
appearanceRefs == <<committed, previews, hasChanges>>

\* The call `name` has returned.
appearanceCalled(name) ==
    /\ appearanceOp' = [name |-> name, changed |-> appearanceRefs' # appearanceRefs]
    /\ UNCHANGED outsideAppearance

initializeSettings(initialSettings) ==
    /\ petSizeSlider' = nullish(initialSettings.size, petSizeSlider)
    /\ petSizePreview' = nullish(initialSettings.size, petSizePreview)
    /\ petOpacitySlider' = nullish(initialSettings.opacity, petOpacitySlider)
    /\ petOpacityPreview' = nullish(initialSettings.opacity, petOpacityPreview)
    /\ showBorder' = nullish(initialSettings.showBorder, showBorder)
    /\ showBorderPreview' = nullish(initialSettings.showBorder, showBorderPreview)
    /\ hasChanges' = FALSE
    /\ appearanceCalled("initializeSettings")

updatePreviewSize_commits(size) ==
    /\ petSizePreview' = size
    /\ petSizeSlider' = size
    /\ hasChanges' = (size # petSizeSlider)
    /\ UNCHANGED <<petOpacitySlider, petOpacityPreview, showBorder, showBorderPreview>>
    /\ appearanceCalled("updatePreviewSize")
updatePreviewSize(size) ==
    /\ petSizePreview' = size
    /\ hasChanges' = (size # petSizeSlider)
    /\ UNCHANGED <<petSizeSlider, petOpacitySlider, petOpacityPreview, showBorder,
                   showBorderPreview>>
    /\ appearanceCalled("updatePreviewSize")

updatePreviewOpacity(opacity) ==
    /\ petOpacityPreview' = opacity
    /\ hasChanges' = (opacity # petOpacitySlider)
    /\ UNCHANGED <<petSizeSlider, petSizePreview, petOpacitySlider, showBorder,
                   showBorderPreview>>
    /\ appearanceCalled("updatePreviewOpacity")

updatePreviewBorder(show) ==
    /\ showBorderPreview' = show
    /\ hasChanges' = (show # showBorder)
    /\ UNCHANGED <<petSizeSlider, petSizePreview, petOpacitySlider,
                   petOpacityPreview, showBorder>>
    /\ appearanceCalled("updatePreviewBorder")

updatePetSize(size) ==
    /\ petSizeSlider' = size
    /\ petSizePreview' = size
    /\ hasChanges' = FALSE
    /\ UNCHANGED <<petOpacitySlider, petOpacityPreview, showBorder, showBorderPreview>>
    /\ appearanceCalled("updatePetSize")

updatePetOpacity(opacity) ==
    /\ petOpacitySlider' = opacity
    /\ petOpacityPreview' = opacity
    /\ hasChanges' = FALSE
    /\ UNCHANGED <<petSizeSlider, petSizePreview, showBorder, showBorderPreview>>
    /\ appearanceCalled("updatePetOpacity")

updateShowBorder(show) ==
    /\ showBorder' = show
    /\ showBorderPreview' = show
    /\ hasChanges' = FALSE
    /\ UNCHANGED <<petSizeSlider, petSizePreview, petOpacitySlider, petOpacityPreview>>
    /\ appearanceCalled("updateShowBorder")

resetToDefaults ==
    /\ petSizeSlider' = DEFAULT_SETTINGS.size
    /\ petSizePreview' = DEFAULT_SETTINGS.size
    /\ petOpacitySlider' = DEFAULT_SETTINGS.opacity
    /\ petOpacityPreview' = DEFAULT_SETTINGS.opacity
    /\ showBorder' = DEFAULT_SETTINGS.showBorder
    /\ showBorderPreview' = DEFAULT_SETTINGS.showBorder
    /\ hasChanges' = TRUE
    /\ appearanceCalled("resetToDefaults")

revertChanges ==
    /\ petSizePreview' = petSizeSlider
    /\ petOpacityPreview' = petOpacitySlider
    /\ showBorderPreview' = showBorder
    /\ hasChanges' = FALSE
    /\ UNCHANGED committed
    /\ appearanceCalled("revertChanges")

NextAppearance ==
    \/ \E initialSettings \in InitialSettings : initializeSettings(initialSettings)
    \/ \E size \in PetSizes : updatePreviewSize(size)
    \/ \E opacity \in PetOpacities : updatePreviewOpacity(opacity)
    \/ \E show \in BOOLEAN : updatePreviewBorder(show)
    \/ \E size \in PetSizes : updatePetSize(size)
    \/ \E opacity \in PetOpacities : updatePetOpacity(opacity)
    \/ \E show \in BOOLEAN : updateShowBorder(show)
    \/ resetToDefaults
    \/ revertChanges

SpecAppearance == Init /\ [][NextAppearance]_vars

\* C22: the preview updates write the preview value they are given and
\* leave the three committed values (and the other previews) as they are;
\* revertChanges sets every preview to its committed value, clears
\* hasChanges and leaves the committed values as they are.
C22_PreviewApartFromCommitted ==
    /\ [][\A size \in PetSizes :
            updatePreviewSize(size) =>
                /\ petSizePreview' = size
                /\ UNCHANGED <<committed, petOpacityPreview, showBorderPreview>>]_vars
    /\ [][\A opacity \in PetOpacities :
            updatePreviewOpacity(opacity) =>
                /\ petOpacityPreview' = opacity
                /\ UNCHANGED <<committed, petSizePreview, showBorderPreview>>]_vars
    /\ [][\A show \in BOOLEAN :
            updatePreviewBorder(show) =>
                /\ showBorderPreview' = show
                /\ UNCHANGED <<committed, petSizePreview, petOpacityPreview>>]_vars
    /\ [][appearanceOp'.name \in
              {"updatePreviewSize", "updatePreviewOpacity", "updatePreviewBorder"}
              => UNCHANGED committed]_vars
    /\ [][appearanceOp'.name = "revertChanges" =>
              /\ previews' = committed
              /\ ~hasChanges'
              /\ UNCHANGED committed]_vars

\* revertChanges has undone a preview that differed from committed values
\* which are not the defaults.
C22_Witness ==
    /\ appearanceOp = [name |-> "revertChanges", changed |-> TRUE]
    /\ previews = committed /\ ~hasChanges
    /\ petSizeSlider # DEFAULT_SETTINGS.size
    /\ petOpacitySlider # DEFAULT_SETTINGS.opacity


\* ------------------------------------------- MainPage, useMainWindowResize
\* Logical lengths are kept in quarters of a logical pixel, so that half
\* pixels at either scale factor are integers.
QUARTERS == 4
\* A physical length as a logical one: physical / scaleFactor
toLogical(physical, scale) == (physical * QUARTERS) \div scale
\* A logical length as the physical pixel the shell rounds it to (halves
\* away from zero; the lengths here are positive).
toPhysical(logical, scale) == (2 * logical * scale + QUARTERS) \div (2 * QUARTERS)

\* The centre of the window in half physical pixels: position + size / 2
centre2(position, side) == [x |-> 2 * position.x + side, y |-> 2 * position.y + side]

\* The listener of tauri://move: centerX / scaleFactor, centerY / scaleFactor
recordedCentre(position, side, scale) ==
    [x |-> toLogical(centre2(position, side).x, scale) \div 2,
     y |-> toLogical(centre2(position, side).y, scale) \div 2]

\* computeLogicalMainWindowState(petSize)
logicalSide(petSize) == (petSize + WINDOW_MARGIN) * QUARTERS
computeLogicalMainWindowState(petSize, centre) ==
    [logicalSize |-> logicalSide(petSize),
     logicalPosition |-> [x |-> centre.x - logicalSide(petSize) \div 2,
                          y |-> centre.y - logicalSide(petSize) \div 2]]

\* A tauri://move event reaches throttle(listener, 200, {leading, trailing}):
\* the listener runs at once when the throttle is idle, else at the end of
\* the wait.  `position` and `side` are where the window was moved to.
moveEvent(position, side) ==
    IF moveThrottle = "idle"
    THEN /\ mainWindowCentre' = recordedCentre(position, side, scaleFactor)
         /\ moveThrottle' = "waiting"
    ELSE /\ moveThrottle' = "pending"
         /\ UNCHANGED mainWindowCentre

\* resizeMainWindow(petSize): setSize, then setPosition, whose move event
\* goes to the listener when it is registered.
setGeometry(petSize, listening) ==
    LET state == computeLogicalMainWindowState(petSize, mainWindowCentre)
        side == toPhysical(state.logicalSize, scaleFactor)
        position == [x |-> toPhysical(state.logicalPosition.x, scaleFactor),
                     y |-> toPhysical(state.logicalPosition.y, scaleFactor)]
    IN  /\ windowSide' = side
        /\ windowPosition' = position
        /\ lastResize' = petSize
        /\ IF listening /\ position # windowPosition
           THEN moveEvent(position, side)
           ELSE UNCHANGED <<mainWindowCentre, moveThrottle>>

\* onMounted of MainPage: the config is loaded (main_window_x/y as saved by
\* an earlier run), watchEffect runs resizeMainWindow at once, and the
\* listener of tauri://move is registered after it.
mainPageMounted(scale, savedPlace, petSize) ==
    /\ ~mainMounted
    /\ mainMounted' = TRUE
    /\ scaleFactor' = scale
    /\ LET centre == recordedCentre(savedPlace, toPhysical(logicalSide(petSize), scale), scale)
           state == computeLogicalMainWindowState(petSize, centre)
       IN  /\ mainWindowCentre' = centre
           /\ windowSide' = toPhysical(state.logicalSize, scale)
           /\ windowPosition' = [x |-> toPhysical(state.logicalPosition.x, scale),
                                 y |-> toPhysical(state.logicalPosition.y, scale)]
    /\ lastResize' = petSize
    /\ UNCHANGED <<moveThrottle, resizes, outsideResize>>

\* The user drags the pet to another place.
windowDragged(place) ==
    /\ mainMounted
    /\ place # windowPosition
    /\ windowPosition' = place
    /\ moveEvent(place, windowSide)
    /\ UNCHANGED <<mainMounted, scaleFactor, windowSide, lastResize, resizes,
                   outsideResize>>

\* The wait of the throttle ends: the trailing call of the listener, if an
\* event came in the meantime.
moveThrottleExpires ==
    /\ moveThrottle # "idle"
    /\ mainWindowCentre' = IF moveThrottle = "pending"
                           THEN recordedCentre(windowPosition, windowSide, scaleFactor)
                           ELSE mainWindowCentre
    /\ moveThrottle' = "idle"
    /\ UNCHANGED <<mainMounted, scaleFactor, windowPosition, windowSide, lastResize,
                   resizes, outsideResize>>

\* appearance.pet_size changes: watchEffect calls resizeMainWindow(petSize).
resizeMainWindow(petSize) ==
    /\ mainMounted
    /\ petSize # lastResize
    /\ resizes < MaxResizes
    /\ resizes' = resizes + 1
    /\ setGeometry(petSize, TRUE)
    /\ UNCHANGED <<mainMounted, scaleFactor, outsideResize>>

NextResize ==
    \/ \E scale \in ScaleFactors, savedPlace \in Places, petSize \in ResizeSizes :
           mainPageMounted(scale, savedPlace, petSize)
    \/ \E place \in Places : windowDragged(place)
    \/ moveThrottleExpires
    \/ \E petSize \in ResizeSizes : resizeMainWindow(petSize)

SpecResize == Init /\ [][NextResize]_vars

\* |a - b| <= d
within(a, b, d) == a - b <= d /\ b - a <= d

C24_NewestTextWins ==
    /\ []((bubbleWindow = "open" /\ typing = <<>> /\ newestText # <<>>)
              => displayedMessage = newestText)
    /\ []((bubbleWindow = "open" /\ ~isTyping) => typing = <<>>)
    /\ [][(typeTick /\ displayedMessage' # displayedMessage)
              => Head(typing).message = newestText]_vars


\* ------------------------------------------------ stale window events
\* C25: a destroyed or error event of a window that a newer window of the
\* same label has replaced does not remove the newer window's registry
\* entry: between the calls of createWindow and closeWindow, getWindow(label)
\* is the window that is open under the label, whenever one is.
C25_RegistryKeepsNewerWindow ==
    \A label \in Labels :
        \A h \in liveWith(label) : WindowFactory_getWindow(Factory, label) = h

====
